---- MODULE Spec2Model ----
(***************************************************************************)
(* Mini Store Management System (src/store.py).                            *)
(*                                                                         *)
(* Text is a sequence of character codes, so that str.lower(), str.strip()  *)
(* and the int()/float() parsers are computed and not assumed.  A Product  *)
(* object is identified by its position in Store.products (the catalog     *)
(* never removes or reorders), so a CartItem's product reference is an     *)
(* index and a stock change made through it is seen by the catalog.        *)
(* Prices are held in cents (1200.0 is 120000).                            *)
(***************************************************************************)
EXTENDS Integers, Sequences, FiniteSets, TLC

VARIABLES
    products,   \* Store.products: the catalog, a sequence of Product
    items,      \* Cart.items of the running customer session, a sequence of CartItem
    pc,         \* the menu loop the program is in
    last,       \* the last operation: what it was, what it returned, what it printed
    sold        \* per product, the units checked out so far (history)

vars == <<products, items, pc, last, sold>>

----------------------------------------------------------------------------
(* Bounds *)

\* longest catalog the model builds (add_product is not offered beyond it)
MaxProducts == 3

\* longest catalog built when the classes are used directly
MaxApiProducts == 2

\* most units the model lets customers take, in checkouts and the running cart together
MaxUnits == 4

----------------------------------------------------------------------------
(* Text *)

Laptop == <<76, 97, 112, 116, 111, 112>>
laptop == <<108, 97, 112, 116, 111, 112>>
Mouse == <<77, 111, 117, 115, 101>>
Pen == <<80, 101, 110>>
done == <<100, 111, 110, 101>>
Done == <<68, 111, 110, 101>>

\* str.lower() on one ASCII character
lower_char(c) == IF c >= 65 /\ c <= 90 THEN c + 32 ELSE c

\* str.lower()
lower(s) == [i \in DOMAIN s |-> lower_char(s[i])]

IsSpace(c) == c = 32 \/ (c >= 9 /\ c <= 13)

RECURSIVE lstrip(_)
lstrip(s) == IF s /= <<>> /\ IsSpace(Head(s)) THEN lstrip(Tail(s)) ELSE s

RECURSIVE rstrip(_)
rstrip(s) ==
    IF s /= <<>> /\ IsSpace(s[Len(s)]) THEN rstrip(SubSeq(s, 1, Len(s) - 1)) ELSE s

\* str.strip()
strip(s) == rstrip(lstrip(s))

IsDigit(c) == c >= 48 /\ c <= 57

AllDigits(s) == s /= <<>> /\ \A i \in DOMAIN s : IsDigit(s[i])

RECURSIVE digits_value(_)
digits_value(s) ==
    IF s = <<>> THEN 0 ELSE 10 * digits_value(SubSeq(s, 1, Len(s) - 1)) + (s[Len(s)] - 48)

\* the text without a leading sign
unsigned(s) == IF s /= <<>> /\ (Head(s) = 45 \/ Head(s) = 43) THEN Tail(s) ELSE s

sign(s) == IF s /= <<>> /\ Head(s) = 45 THEN -1 ELSE 1

\* int(text): [ok |-> FALSE] stands for ValueError
parse_int(text) ==
    LET s == strip(text)
        u == unsigned(s)
    IN  IF AllDigits(u)
        THEN [ok |-> TRUE, val |-> sign(s) * digits_value(u)]
        ELSE [ok |-> FALSE, val |-> 0]

\* position of the decimal point, 0 when there is none
dot(u) == IF \E i \in DOMAIN u : u[i] = 46
          THEN CHOOSE i \in DOMAIN u : u[i] = 46 /\ \A j \in 1..(i - 1) : u[j] /= 46
          ELSE 0

\* float(text) for plain decimal text with at most two decimals, in cents
parse_float(text) ==
    LET s == strip(text)
        u == unsigned(s)
        d == dot(u)
        whole == IF d = 0 THEN u ELSE SubSeq(u, 1, d - 1)
        frac == IF d = 0 THEN <<>> ELSE SubSeq(u, d + 1, Len(u))
        cents == IF Len(frac) = 0 THEN 0
                 ELSE IF Len(frac) = 1 THEN 10 * digits_value(frac)
                 ELSE digits_value(frac)
    IN  IF /\ whole \o frac /= <<>>
           /\ \A i \in DOMAIN whole : IsDigit(whole[i])
           /\ \A i \in DOMAIN frac : IsDigit(frac[i])
           /\ Len(frac) <= 2
        THEN [ok |-> TRUE, val |-> sign(s) * (100 * digits_value(whole) + cents)]
        ELSE [ok |-> FALSE, val |-> 0]

----------------------------------------------------------------------------
(* Product, CartItem *)

Product(name, price, stock) == [name |-> name, price |-> price, stock |-> stock]

CartItem(product, quantity) == [product |-> product, quantity |-> quantity]

get_total_price(item, prods) == prods[item.product].price * item.quantity

Say(text, n) == [text |-> text, n |-> n]

Min(S) == CHOOSE x \in S : \A y \in S : x <= y

----------------------------------------------------------------------------
(* Cart *)

\* indexes of the cart items the loop of add_to_cart matches
SameName(its, prods, product) ==
    {i \in DOMAIN its : prods[its[i].product].name = prods[product].name}

\* add_to_cart without the check of lines 115-117
add_to_cart_unchecked_total(its, prods, product, quantity) ==
    IF quantity <= 0
    THEN [ret |-> FALSE, items |-> its, out |-> Say("Quantity must be positive!", 0)]
    ELSE IF quantity > prods[product].stock
    THEN [ret |-> FALSE, items |-> its,
          out |-> Say("Not enough stock! Available:", prods[product].stock)]
    ELSE IF SameName(its, prods, product) /= {}
    THEN [ret |-> TRUE,
          items |-> [its EXCEPT ![Min(SameName(its, prods, product))].quantity =
                                    @ + quantity],
          out |-> Say("Added to cart.", quantity)]
    ELSE [ret |-> TRUE, items |-> Append(its, CartItem(product, quantity)),
          out |-> Say("Added to cart.", quantity)]

\* add_to_cart without the check of lines 108-110
add_to_cart_no_stock_check(its, prods, product, quantity) ==
    IF quantity <= 0
    THEN [ret |-> FALSE, items |-> its, out |-> Say("Quantity must be positive!", 0)]
    ELSE IF SameName(its, prods, product) /= {}
    THEN LET i == Min(SameName(its, prods, product))
         IN  IF its[i].quantity + quantity > prods[product].stock
             THEN [ret |-> FALSE, items |-> its,
                   out |-> Say("Cannot add more. Total would exceed available stock!",
                               quantity)]
             ELSE [ret |-> TRUE,
                   items |-> [its EXCEPT ![i].quantity = @ + quantity],
                   out |-> Say("Added to cart.", quantity)]
    ELSE [ret |-> TRUE, items |-> Append(its, CartItem(product, quantity)),
          out |-> Say("Added to cart.", quantity)]

\* add_to_cart with line 118 moved before the check of line 115
add_to_cart_mutate_then_reject(its, prods, product, quantity) ==
    IF quantity <= 0
    THEN [ret |-> FALSE, items |-> its, out |-> Say("Quantity must be positive!", 0)]
    ELSE IF quantity > prods[product].stock
    THEN [ret |-> FALSE, items |-> its,
          out |-> Say("Not enough stock! Available:", prods[product].stock)]
    ELSE IF SameName(its, prods, product) /= {}
    THEN LET i == Min(SameName(its, prods, product))
             bumped == [its EXCEPT ![i].quantity = @ + quantity]
         IN  IF bumped[i].quantity > prods[product].stock
             THEN [ret |-> FALSE, items |-> bumped,
                   out |-> Say("Cannot add more. Total would exceed available stock!",
                               quantity)]
             ELSE [ret |-> TRUE, items |-> bumped,
                   out |-> Say("Added to cart.", quantity)]
    ELSE [ret |-> TRUE, items |-> Append(its, CartItem(product, quantity)),
          out |-> Say("Added to cart.", quantity)]

add_to_cart(its, prods, product, quantity) ==
    IF quantity <= 0
    THEN [ret |-> FALSE, items |-> its, out |-> Say("Quantity must be positive!", 0)]
    ELSE IF quantity > prods[product].stock
    THEN [ret |-> FALSE, items |-> its,
          out |-> Say("Not enough stock! Available:", prods[product].stock)]
    ELSE IF SameName(its, prods, product) /= {}
    THEN LET i == Min(SameName(its, prods, product))
         IN  IF its[i].quantity + quantity > prods[product].stock
             THEN [ret |-> FALSE, items |-> its,
                   out |-> Say("Cannot add more. Total would exceed available stock!",
                               quantity)]
             ELSE [ret |-> TRUE,
                   items |-> [its EXCEPT ![i].quantity = @ + quantity],
                   out |-> Say("Added to cart.", quantity)]
    ELSE [ret |-> TRUE, items |-> Append(its, CartItem(product, quantity)),
          out |-> Say("Added to cart.", quantity)]

\* indexes of the cart items the loop of remove_from_cart matches
LowerMatch(its, prods, product_name) ==
    {i \in DOMAIN its : lower(prods[its[i].product].name) = lower(product_name)}

\* list.pop(i)
pop(s, i) == SubSeq(s, 1, i - 1) \o SubSeq(s, i + 1, Len(s))

\* remove_from_cart with pop(0) in place of pop(i)
remove_from_cart_pop_first(its, prods, product_name) ==
    IF LowerMatch(its, prods, product_name) /= {}
    THEN [ret |-> TRUE, items |-> pop(its, 1),
          out |-> Say("Removed from cart.", its[1].product)]
    ELSE [ret |-> FALSE, items |-> its, out |-> Say("Product not found in cart!", 0)]

\* remove_from_cart comparing the names as they are, without .lower()
remove_from_cart_exact(its, prods, product_name) ==
    IF \E i \in DOMAIN its : prods[its[i].product].name = product_name
    THEN LET i == Min({j \in DOMAIN its : prods[its[j].product].name = product_name})
         IN  [ret |-> TRUE, items |-> pop(its, i),
              out |-> Say("Removed from cart.", its[i].product)]
    ELSE [ret |-> FALSE, items |-> its, out |-> Say("Product not found in cart!", 0)]

remove_from_cart(its, prods, product_name) ==
    IF LowerMatch(its, prods, product_name) /= {}
    THEN LET i == Min(LowerMatch(its, prods, product_name))
         IN  [ret |-> TRUE, items |-> pop(its, i),
              out |-> Say("Removed from cart.", its[i].product)]
    ELSE [ret |-> FALSE, items |-> its, out |-> Say("Product not found in cart!", 0)]

RECURSIVE total_from(_, _, _)
total_from(its, prods, k) ==
    IF k > Len(its) THEN 0
    ELSE get_total_price(its[k], prods) + total_from(its, prods, k + 1)

total_price(its, prods) == total_from(its, prods, 1)

view_cart(its, prods) ==
    IF its = <<>> THEN Say("Your cart is empty!", 0)
    ELSE Say("Total:", total_price(its, prods))

\* the loop of checkout with stock -= 1 in place of stock -= quantity
RECURSIVE checkout_loop_by_one(_, _, _)
checkout_loop_by_one(its, prods, k) ==
    IF k > Len(its) THEN prods
    ELSE checkout_loop_by_one(its, [prods EXCEPT ![its[k].product].stock = @ - 1], k + 1)

\* the loop of checkout left after its first item
checkout_loop_first_only(its, prods, k) ==
    IF k > Len(its) THEN prods
    ELSE [prods EXCEPT ![its[k].product].stock = @ - its[k].quantity]

\* the loop of checkout from item k on: stock -= quantity through each reference
RECURSIVE checkout_loop(_, _, _)
checkout_loop(its, prods, k) ==
    IF k > Len(its) THEN prods
    ELSE checkout_loop(its,
                       [prods EXCEPT ![its[k].product].stock = @ - its[k].quantity],
                       k + 1)

\* checkout without the check of lines 168-170
checkout_no_empty_check(its, prods) ==
    [items |-> <<>>, products |-> checkout_loop(its, prods, 1),
     out |-> Say("Total amount due:", total_price(its, checkout_loop(its, prods, 1)))]

\* checkout with the total printed after items.clear()
checkout_total_after_clear(its, prods) ==
    IF its = <<>>
    THEN [items |-> its, products |-> prods, out |-> Say("Cart is empty!", 0)]
    ELSE [items |-> <<>>, products |-> checkout_loop(its, prods, 1),
          out |-> Say("Total amount due:",
                      total_price(<<>>, checkout_loop(its, prods, 1)))]

checkout(its, prods) ==
    IF its = <<>>
    THEN [items |-> its, products |-> prods, out |-> Say("Cart is empty!", 0)]
    ELSE LET after == checkout_loop(its, prods, 1)
         IN  [items |-> <<>>, products |-> after,
              out |-> Say("Total amount due:", total_price(its, after))]

----------------------------------------------------------------------------
(* Store *)

manager_username == "admin"
manager_password == "1234"

\* add_product with price < 0 in place of price <= 0
add_product_zero_price(prods, name, price, stock) ==
    IF price < 0
    THEN [ret |-> FALSE, products |-> prods, out |-> Say("Price must be positive!", 0)]
    ELSE IF stock < 0
    THEN [ret |-> FALSE, products |-> prods, out |-> Say("Stock cannot be negative!", 0)]
    ELSE [ret |-> TRUE, products |-> Append(prods, Product(name, price, stock)),
          out |-> Say("Product added:", Len(prods) + 1)]

\* add_product that overwrites a product of the same name, letter case ignored,
\* where there is one
add_product_overwrite(prods, name, price, stock) ==
    IF price <= 0
    THEN [ret |-> FALSE, products |-> prods, out |-> Say("Price must be positive!", 0)]
    ELSE IF stock < 0
    THEN [ret |-> FALSE, products |-> prods, out |-> Say("Stock cannot be negative!", 0)]
    ELSE IF \E i \in DOMAIN prods : lower(prods[i].name) = lower(name)
    THEN [ret |-> TRUE,
          products |-> [i \in DOMAIN prods |->
                           IF lower(prods[i].name) = lower(name)
                           THEN Product(prods[i].name, price, stock) ELSE prods[i]],
          out |-> Say("Product added:", Len(prods))]
    ELSE [ret |-> TRUE, products |-> Append(prods, Product(name, price, stock)),
          out |-> Say("Product added:", Len(prods) + 1)]

add_product(prods, name, price, stock) ==
    IF price <= 0
    THEN [ret |-> FALSE, products |-> prods, out |-> Say("Price must be positive!", 0)]
    ELSE IF stock < 0
    THEN [ret |-> FALSE, products |-> prods, out |-> Say("Stock cannot be negative!", 0)]
    ELSE [ret |-> TRUE, products |-> Append(prods, Product(name, price, stock)),
          out |-> Say("Product added:", Len(prods) + 1)]

list_products(prods) ==
    IF prods = <<>> THEN Say("No products available in the store.", 0)
    ELSE Say("Available products:", Len(prods))

\* find_product comparing the names as they are, without .lower()
find_product_exact(prods, name) ==
    IF \E i \in DOMAIN prods : prods[i].name = name
    THEN Min({i \in DOMAIN prods : prods[i].name = name})
    ELSE 0

\* find_product that keeps looking after a match and returns the last one
find_product_last_match(prods, name) ==
    IF \E i \in DOMAIN prods : lower(prods[i].name) = lower(name)
    THEN CHOOSE i \in DOMAIN prods :
             /\ lower(prods[i].name) = lower(name)
             /\ \A j \in DOMAIN prods : lower(prods[j].name) = lower(name) => j <= i
    ELSE 0

\* the index of the product found, 0 for None
find_product(prods, name) ==
    IF \E i \in DOMAIN prods : lower(prods[i].name) = lower(name)
    THEN Min({i \in DOMAIN prods : lower(prods[i].name) = lower(name)})
    ELSE 0

----------------------------------------------------------------------------
(* Console input *)

\* the text of a small integer as it is typed
Text(n) == IF n < 0 THEN <<45, 48 - n>> ELSE <<48 + n>>

\* menu choices typed: "1".."5", " 1 ", "9", ""
ChoiceTexts == {Text(n) : n \in 1..5} \cup {<<32, 49, 32>>, Text(9), <<>>}

\* names typed for a new product: "laptop", "Pen", "done", "Done"
NewNameTexts == {laptop, Pen, done, Done}

\* names typed to find or to remove a product: "Laptop", "laptop", "Mouse", "Pen"
NameTexts == {Laptop, laptop, Mouse, Pen}

abc == <<97, 98, 99>>

\* prices typed: "-5", "0", "9.5", "abc"
PriceTexts == {Text(-5), Text(0), <<57, 46, 53>>, abc}

\* stocks typed: "-1", "2", "2.0", "abc"
StockTexts == {Text(-1), Text(2), <<50, 46, 48>>, abc}

\* quantities typed: "-1", "0", "1", "2", "4", "abc"
QuantityTexts == {Text(-1), Text(0), Text(1), Text(2), Text(4), abc}

Usernames == {"admin", "guest"}
Passwords == {"1234", "0000"}

----------------------------------------------------------------------------
(* What the last operation was, what it returned and what it printed *)

\* (of the numbers printed, the total of a checkout is the one kept)
Did(op, ret, out) ==
    [op |-> op, ret |-> ret, text |-> out.text,
     n |-> IF out.text = "Total amount due:" THEN out.n ELSE 0]

Bool(b) == IF b THEN "True" ELSE "False"

RECURSIVE Sum(_)
Sum(s) == IF s = <<>> THEN 0 ELSE Head(s) + Sum(Tail(s))

\* the units a cart holds
CartUnits(its) == Sum([k \in DOMAIN its |-> its[k].quantity])

\* the units a cart holds of the product at index i
Held(its, i) == Sum([k \in DOMAIN its |-> IF its[k].product = i THEN its[k].quantity ELSE 0])

----------------------------------------------------------------------------
(* main(): the seeded store and the top-level menu *)

Seeded ==
    add_product(add_product(<<>>, Laptop, 120000, 5).products, Mouse, 2500, 20).products

Init ==
    /\ products = Seeded
    /\ items = <<>>
    /\ pc = "main"
    /\ last = Did("main", "None", Say("", 0))
    /\ sold = [i \in DOMAIN Seeded |-> 0]

\* what manager_login returns for the credentials typed
manager_login(username, password) ==
    username = manager_username /\ password = manager_password

\* main with manager_menu entered whatever manager_login returned
after_login_ungated(ok) == "manager_menu"

\* where choice "1" of the top-level menu leads: manager_menu if manager_login
\* returned True, the top-level loop again otherwise
after_login(ok) == IF ok THEN "manager_menu" ELSE "main"

\* choice "1": manager_login, and manager_menu when it returns True
MainManager ==
    /\ pc = "main"
    /\ \E choice \in ChoiceTexts : strip(choice) = Text(1)
    /\ \E username \in Usernames, password \in Passwords :
          LET ok == manager_login(username, password)
          IN  /\ pc' = after_login(ok)
              /\ last' = Did("manager_login", Bool(ok),
                             IF ok THEN Say("Login successful! Welcome, Manager.", 0)
                             ELSE Say("Login failed!", 0))
    /\ UNCHANGED <<products, items, sold>>

\* choice "2": customer_menu starts with a new Cart
MainCustomer ==
    /\ pc = "main"
    /\ \E choice \in ChoiceTexts : strip(choice) = Text(2)
    /\ pc' = "customer_menu"
    /\ items' = <<>>
    /\ last' = Did("customer_menu", "None", list_products(products))
    /\ UNCHANGED <<products, sold>>

\* choice "3"
MainExit ==
    /\ pc = "main"
    /\ \E choice \in ChoiceTexts : strip(choice) = Text(3)
    /\ pc' = "exit"
    /\ last' = Did("exit", "None", Say("Goodbye! See you next time.", 0))
    /\ UNCHANGED <<products, items, sold>>

MainInvalid ==
    /\ pc = "main"
    /\ \E choice \in ChoiceTexts : strip(choice) \notin {Text(1), Text(2), Text(3)}
    /\ last' = Did("invalid_choice", "None",
                   Say("Invalid choice! Please select 1, 2, or 3.", 0))
    /\ UNCHANGED <<products, items, pc, sold>>

----------------------------------------------------------------------------
(* manager_menu and add_products_menu *)

ManagerAddProducts ==
    /\ pc = "manager_menu"
    /\ \E choice \in ChoiceTexts : strip(choice) = Text(1)
    /\ pc' = "add_products_menu"
    /\ last' = Did("add_products_menu", "None", Say("Add Products", 0))
    /\ UNCHANGED <<products, items, sold>>

ManagerViewProducts ==
    /\ pc = "manager_menu"
    /\ \E choice \in ChoiceTexts : strip(choice) = Text(2)
    /\ last' = Did("list_products", "None", list_products(products))
    /\ UNCHANGED <<products, items, pc, sold>>

ManagerBack ==
    /\ pc = "manager_menu"
    /\ \E choice \in ChoiceTexts : strip(choice) = Text(3)
    /\ pc' = "main"
    /\ last' = Did("return", "None", Say("Returning to main menu...", 0))
    /\ UNCHANGED <<products, items, sold>>

ManagerInvalid ==
    /\ pc = "manager_menu"
    /\ \E choice \in ChoiceTexts : strip(choice) \notin {Text(1), Text(2), Text(3)}
    /\ last' = Did("invalid_choice", "None", Say("Invalid choice!", 0))
    /\ UNCHANGED <<products, items, pc, sold>>

\* the name typed is 'done' in any letter case
AddProductsDone ==
    /\ pc = "add_products_menu"
    /\ \E name \in NewNameTexts : lower(name) = done
    /\ pc' = "manager_menu"
    /\ last' = Did("done", "None", Say("", 0))
    /\ UNCHANGED <<products, items, sold>>

\* float() or int() raises ValueError: the entry is dropped
AddProductsValueError ==
    /\ pc = "add_products_menu"
    /\ \E name \in NewNameTexts, price \in PriceTexts, stock \in StockTexts :
          /\ lower(name) /= done
          /\ ~parse_float(price).ok \/ ~parse_int(stock).ok
    /\ last' = Did("value_error", "None",
                   Say("Invalid input! Please enter valid numbers.", 0))
    /\ UNCHANGED <<products, items, pc, sold>>

AddProductsEntry ==
    /\ pc = "add_products_menu"
    /\ \E name \in NewNameTexts, price \in PriceTexts, stock \in StockTexts :
          /\ lower(name) /= done
          /\ parse_float(price).ok /\ parse_int(stock).ok
          /\ LET r == add_product(products, name, parse_float(price).val,
                                  parse_int(stock).val)
             IN  /\ r.ret => Len(products) < MaxProducts
                 /\ products' = r.products
                 /\ sold' = IF r.ret THEN Append(sold, 0) ELSE sold
                 /\ last' = Did("add_product", Bool(r.ret), r.out)
    /\ UNCHANGED <<items, pc>>

----------------------------------------------------------------------------
(* customer_menu *)

\* customer_menu without the break of line 354
customer_pc_no_break_after_checkout(choice) ==
    IF choice = Text(5) THEN "main" ELSE "customer_menu"

\* where a choice leaves the loop of customer_menu: "4" and "5" break out of it
\* (lines 354, 358), every other choice goes round again
customer_pc(choice) ==
    IF choice = Text(4) \/ choice = Text(5) THEN "main" ELSE "customer_menu"

CustomerNotFound ==
    /\ pc = "customer_menu"
    /\ \E choice \in ChoiceTexts : strip(choice) = Text(1)
    /\ \E product_name \in NameTexts : find_product(products, product_name) = 0
    /\ last' = Did("find_product", "None", Say("Product not found!", 0))
    /\ pc' = customer_pc(Text(1))
    /\ UNCHANGED <<products, items, sold>>

CustomerValueError ==
    /\ pc = "customer_menu"
    /\ \E choice \in ChoiceTexts : strip(choice) = Text(1)
    /\ \E product_name \in NameTexts, quantity \in QuantityTexts :
          /\ find_product(products, product_name) /= 0
          /\ ~parse_int(quantity).ok
    /\ last' = Did("value_error", "None", Say("Please enter a valid number!", 0))
    /\ pc' = customer_pc(Text(1))
    /\ UNCHANGED <<products, items, sold>>

CustomerAdd ==
    /\ pc = "customer_menu"
    /\ \E choice \in ChoiceTexts : strip(choice) = Text(1)
    /\ \E product_name \in NameTexts, quantity \in QuantityTexts :
          /\ find_product(products, product_name) /= 0
          /\ parse_int(quantity).ok
          /\ LET product == find_product(products, product_name)
                 r == add_to_cart(items, products, product, parse_int(quantity).val)
             IN  /\ r.ret => CartUnits(r.items) + Sum(sold) <= MaxUnits
                 /\ items' = r.items
                 /\ last' = Did("add_to_cart", Bool(r.ret), r.out)
    /\ pc' = customer_pc(Text(1))
    /\ UNCHANGED <<products, sold>>

CustomerRemove ==
    /\ pc = "customer_menu"
    /\ \E choice \in ChoiceTexts : strip(choice) = Text(2)
    /\ \E product_name \in NameTexts :
          LET r == remove_from_cart(items, products, product_name)
          IN  /\ items' = r.items
              /\ last' = Did("remove_from_cart", Bool(r.ret), r.out)
    /\ pc' = customer_pc(Text(2))
    /\ UNCHANGED <<products, sold>>

CustomerView ==
    /\ pc = "customer_menu"
    /\ \E choice \in ChoiceTexts : strip(choice) = Text(3)
    /\ last' = Did("view_cart", "None", view_cart(items, products))
    /\ pc' = customer_pc(Text(3))
    /\ UNCHANGED <<products, items, sold>>

\* choice "4": checkout, then break; the cart goes with the session
CustomerCheckout ==
    /\ pc = "customer_menu"
    /\ \E choice \in ChoiceTexts : strip(choice) = Text(4)
    /\ LET r == checkout(items, products)
       IN  /\ products' = r.products
           /\ items' = r.items
           /\ last' = Did("checkout", "None", r.out)
    /\ sold' = [i \in DOMAIN sold |-> sold[i] + Held(items, i)]
    /\ pc' = customer_pc(Text(4))

\* choice "5": break; the cart goes with the session
CustomerReturn ==
    /\ pc = "customer_menu"
    /\ \E choice \in ChoiceTexts : strip(choice) = Text(5)
    /\ pc' = customer_pc(Text(5))
    /\ items' = <<>>
    /\ last' = Did("return", "None", Say("Returning to main menu...", 0))
    /\ UNCHANGED <<products, sold>>

CustomerInvalid ==
    /\ pc = "customer_menu"
    /\ \E choice \in ChoiceTexts :
          /\ strip(choice) \notin {Text(n) : n \in 1..5}
          /\ pc' = customer_pc(strip(choice))
    /\ last' = Did("invalid_choice", "None",
                   Say("Invalid choice! Please select 1-5.", 0))
    /\ UNCHANGED <<products, items, sold>>

----------------------------------------------------------------------------

Next ==
    \/ MainManager
    \/ MainCustomer
    \/ MainExit
    \/ MainInvalid
    \/ ManagerAddProducts
    \/ ManagerViewProducts
    \/ ManagerBack
    \/ ManagerInvalid
    \/ AddProductsDone
    \/ AddProductsValueError
    \/ AddProductsEntry
    \/ CustomerNotFound
    \/ CustomerValueError
    \/ CustomerAdd
    \/ CustomerRemove
    \/ CustomerView
    \/ CustomerCheckout
    \/ CustomerReturn
    \/ CustomerInvalid

Spec == Init /\ [][Next]_vars

----------------------------------------------------------------------------
(* The classes used directly: one Store and one Cart, every method called   *)
(* with any argument, the Product handed to add_to_cart being any Product   *)
(* of the catalog and not only the one find_product returns.               *)

ApiNames == {Laptop, laptop, Mouse}

\* prices: -5.0, 0.0, 25.0
ApiPrices == {-500, 0, 2500}

ApiStocks == {-1, 0, 2}

ApiQuantities == {-1, 0, 1, 2}

InitApi ==
    /\ products = <<>>
    /\ items = <<>>
    /\ pc = "api"
    /\ last = Did("init", "None", Say("", 0))
    /\ sold = <<>>

ApiAddProduct ==
    /\ pc = "api"
    /\ \E name \in ApiNames, price \in ApiPrices, stock \in ApiStocks :
          LET r == add_product(products, name, price, stock)
          IN  /\ r.ret => Len(products) < MaxApiProducts
              /\ products' = r.products
              /\ sold' = IF r.ret THEN Append(sold, 0) ELSE sold
              /\ last' = Did("add_product", Bool(r.ret), r.out)
    /\ UNCHANGED <<items, pc>>

ApiFindProduct ==
    /\ pc = "api"
    /\ \E name \in ApiNames :
          last' = Did("find_product", Bool(find_product(products, name) /= 0), Say("", 0))
    /\ UNCHANGED <<products, items, pc, sold>>

ApiAddToCart ==
    /\ pc = "api"
    /\ \E product \in DOMAIN products, quantity \in ApiQuantities :
          LET r == add_to_cart(items, products, product, quantity)
          IN  /\ r.ret => CartUnits(r.items) + Sum(sold) <= MaxUnits
              /\ items' = r.items
              /\ last' = Did("add_to_cart", Bool(r.ret), r.out)
    /\ UNCHANGED <<products, pc, sold>>

ApiRemoveFromCart ==
    /\ pc = "api"
    /\ \E product_name \in ApiNames :
          LET r == remove_from_cart(items, products, product_name)
          IN  /\ items' = r.items
              /\ last' = Did("remove_from_cart", Bool(r.ret), r.out)
    /\ UNCHANGED <<products, pc, sold>>

ApiViewCart ==
    /\ pc = "api"
    /\ last' = Did("view_cart", "None", view_cart(items, products))
    /\ UNCHANGED <<products, items, pc, sold>>

ApiCheckout ==
    /\ pc = "api"
    /\ LET r == checkout(items, products)
       IN  /\ products' = r.products
           /\ items' = r.items
           /\ last' = Did("checkout", "None", r.out)
    /\ sold' = [i \in DOMAIN sold |-> sold[i] + Held(items, i)]
    /\ UNCHANGED pc

NextApi ==
    \/ ApiAddProduct
    \/ ApiFindProduct
    \/ ApiAddToCart
    \/ ApiRemoveFromCart
    \/ ApiViewCart
    \/ ApiCheckout

SpecApi == InitApi /\ [][NextApi]_vars

----------------------------------------------------------------------------
(* Properties *)

\* C1: in every state reachable from the seeded catalog through the menus
\* (manager add_product; customer add_to_cart, remove_from_cart, checkout,
\* return, over any number of sessions) every product's stock is >= 0.
C1_StockNeverNegative == \A i \in DOMAIN products : products[i].stock >= 0

\* a checkout has sold a product out
C1_Witness ==
    /\ last.op = "checkout"
    /\ last.text = "Total amount due:"
    /\ \E i \in DOMAIN products : sold[i] > 0 /\ products[i].stock = 0

\* C2: in every reachable state of a customer session every cart item has
\* quantity > 0, and the quantity the cart holds of a product is at most that
\* product's current stock.
C2_CartWithinStock ==
    \A k \in DOMAIN items :
        /\ items[k].quantity > 0
        /\ Held(items, items[k].product) <= products[items[k].product].stock

\* a cart of two products, one of them held to the last unit, right after an add
C2_Witness ==
    /\ pc = "customer_menu"
    /\ last.op = "add_to_cart" /\ last.ret = "True"
    /\ Len(items) >= 2
    /\ \E k \in DOMAIN items : items[k].quantity = products[items[k].product].stock

\* C3: a checkout of a non-empty cart takes each item's quantity off the stock
\* of that item's product, once; leaves every other product, and every name and
\* price, as it was; and leaves the cart empty, with total_price() = 0.
C3_CheckoutDecrements ==
    [][(last'.op = "checkout" /\ items /= <<>>) =>
          /\ \A k \in DOMAIN items :
                products'[items[k].product].stock =
                    products[items[k].product].stock - items[k].quantity
          /\ DOMAIN products' = DOMAIN products
          /\ \A i \in DOMAIN products :
                /\ products'[i].name = products[i].name
                /\ products'[i].price = products[i].price
                /\ (\A k \in DOMAIN items : items[k].product /= i) =>
                       products'[i].stock = products[i].stock
          /\ items' = <<>>
          /\ total_price(items', products') = 0]_vars

\* a checkout of two products has happened, one of them bought twice or more
C3_Witness ==
    /\ last.op = "checkout"
    /\ last.text = "Total amount due:"
    /\ Cardinality({i \in DOMAIN sold : sold[i] > 0}) >= 2
    /\ \E i \in DOMAIN sold : sold[i] >= 2

\* C4: a checkout of an empty cart reports the empty cart and changes neither
\* the stock of any product nor the cart.
C4_CheckoutEmpty ==
    [][(last'.op = "checkout" /\ items = <<>>) =>
          /\ last'.text = "Cart is empty!"
          /\ products' = products
          /\ items' = items]_vars

\* an empty cart has been checked out in a store that has products
C4_Witness ==
    /\ last.op = "checkout"
    /\ last.text = "Cart is empty!"
    /\ products /= <<>>

\* the conditions C5 names: quantity <= 0, or quantity alone or with what the
\* cart already holds of the product above the product's stock
C5_Rejected(product, quantity) ==
    \/ quantity <= 0
    \/ quantity > products[product].stock
    \/ Held(items, product) + quantity > products[product].stock

\* C5: in any cart state and for any product, an add_to_cart under one of the
\* conditions above returns False; an add_to_cart that returns False leaves the
\* items and their quantities as they were, and so does the same call again.
C5_RejectedAddKeepsCart ==
    \A product \in DOMAIN products, quantity \in ApiQuantities :
        LET r == add_to_cart(items, products, product, quantity)
        IN  /\ C5_Rejected(product, quantity) => ~r.ret
            /\ ~r.ret =>
                  /\ r.items = items
                  /\ add_to_cart(r.items, products, product, quantity) = r

\* an add to a cart that holds the product was rejected for the total
C5_Witness ==
    /\ last.op = "add_to_cart" /\ last.ret = "False"
    /\ last.text = "Cannot add more. Total would exceed available stock!"
    /\ items /= <<>>

\* C6 as stated: whenever add_to_cart(product, q) succeeds, a following
\* remove_from_cart(product.name) gives back the cart of before the add.
C6_RoundTripAlways ==
    \A product \in DOMAIN products, quantity \in ApiQuantities :
        LET a == add_to_cart(items, products, product, quantity)
            r == remove_from_cart(a.items, products, products[product].name)
        IN  a.ret => r.ret /\ r.items = items

\* the cart holds no item whose product name is name, letter case ignored
C6_NotInCart(name) ==
    \A k \in DOMAIN items : lower(products[items[k].product].name) /= lower(name)

\* C6 amended: whenever add_to_cart(product, q) succeeds on a cart that holds
\* no item named product.name in any letter case, a following
\* remove_from_cart(product.name) gives back the cart of before the add: same
\* items, same quantities, same order.
C6_RoundTripNewItem ==
    \A product \in DOMAIN products, quantity \in ApiQuantities :
        LET a == add_to_cart(items, products, product, quantity)
            r == remove_from_cart(a.items, products, products[product].name)
        IN  (a.ret /\ C6_NotInCart(products[product].name)) => r.ret /\ r.items = items

\* a non-empty cart right after a removal, to which a product it does not hold
\* can be added
C6_Witness ==
    /\ last.op = "remove_from_cart" /\ last.ret = "True"
    /\ items /= <<>>
    /\ \E product \in DOMAIN products, quantity \in ApiQuantities :
          /\ add_to_cart(items, products, product, quantity).ret
          /\ C6_NotInCart(products[product].name)

\* C7: in any catalog state, add_product(name, price, stock) with price > 0 and
\* stock >= 0 succeeds, and find_product(name) then returns a product with that
\* price and that stock.
C7_AddThenFind ==
    \A name \in ApiNames, price \in ApiPrices, stock \in ApiStocks :
        (price > 0 /\ stock >= 0) =>
            LET r == add_product(products, name, price, stock)
                found == find_product(r.products, name)
            IN  /\ r.ret
                /\ found /= 0
                /\ r.products[found].price = price
                /\ r.products[found].stock = stock

\* C8: in any catalog state, add_product with price <= 0 or stock < 0 returns
\* False and leaves the catalog as it was: same length, same products, same order.
C8_InvalidProductRejected ==
    \A name \in ApiNames, price \in ApiPrices, stock \in ApiStocks :
        (price <= 0 \/ stock < 0) =>
            LET r == add_product(products, name, price, stock)
            IN  ~r.ret /\ r.products = products

\* an add_product was rejected in a store that has products
C8_Witness ==
    /\ last.op = "add_product" /\ last.ret = "False"
    /\ products /= <<>>

\* the seeded store with 2 Laptops in the cart
C9_Scenario ==
    /\ pc = "customer_menu"
    /\ products = Seeded
    /\ items = <<CartItem(find_product(Seeded, Laptop), 2)>>

\* C9 as stated: with Laptop stock 5 and 2 Laptops in the cart,
\* add_to_cart(Laptop, 4) is rejected, reports "Available: 5" and leaves the
\* cart at 2 Laptops.
C9_RejectedReportsAvailable ==
    C9_Scenario =>
        LET r == add_to_cart(items, products, find_product(products, Laptop), 4)
        IN  /\ ~r.ret
            /\ r.out = Say("Not enough stock! Available:", 5)
            /\ r.items = items

\* C9 amended: with Laptop stock 5 and 2 Laptops in the cart,
\* add_to_cart(Laptop, 4) is rejected, reports that 4 more cannot be added
\* because the total would exceed the available stock (the available stock is
\* not printed), and leaves the cart at 2 Laptops.
C9_RejectedReportsTotal ==
    C9_Scenario =>
        LET r == add_to_cart(items, products, find_product(products, Laptop), 4)
        IN  /\ ~r.ret
            /\ r.out = Say("Cannot add more. Total would exceed available stock!", 4)
            /\ r.items = <<CartItem(find_product(Seeded, Laptop), 2)>>

\* the scenario, right after the rejected add
C9_Witness ==
    /\ C9_Scenario
    /\ last.op = "add_to_cart" /\ last.ret = "False"
    /\ last.text = "Cannot add more. Total would exceed available stock!"

\* C10: after any add_to_cart, remove_from_cart and checkout calls, with any
\* Product arguments, no two cart items have product names that are equal when
\* letter case is ignored.
C10_OneItemPerName ==
    \A j, k \in DOMAIN items :
        j /= k => lower(products[items[j].product].name) /=
                      lower(products[items[k].product].name)

\* C11: a product is created only in add_products_menu, which is entered only
\* from manager_menu, which is entered only from the top-level menu by a
\* manager_login that returned True; a manager_login that returned False leaves
\* the program in the top-level menu with the catalog as it was.
C11_LoginGatesManager ==
    [][/\ Len(products') > Len(products) => pc = "add_products_menu"
       /\ (pc' = "add_products_menu" /\ pc /= "add_products_menu") => pc = "manager_menu"
       /\ (pc' = "manager_menu" /\ pc \notin {"manager_menu", "add_products_menu"}) =>
              /\ pc = "main"
              /\ last'.op = "manager_login" /\ last'.ret = "True"
       /\ (pc = "main" /\ last'.op = "manager_login" /\ last'.ret = "False") =>
              pc' = "main" /\ products' = products]_vars

\* a product has been created past the seeded two
C11_Witness ==
    /\ pc = "add_products_menu"
    /\ last.op = "add_product" /\ last.ret = "True"
    /\ Len(products) > Len(Seeded)

\* the operations of customer_menu that change what the cart holds
C12_ChangesCart(op, ret) == op \in {"add_to_cart", "remove_from_cart"} /\ ret = "True"

\* C12: in customer_menu a checkout, of an empty cart or not, and a return both
\* end the session and give control back to the top-level menu; any other choice
\* leaves the program in customer_menu with its cart, whose items change only by
\* a successful add or remove.
C12_SessionEnds ==
    [][pc = "customer_menu" =>
          IF last'.op \in {"checkout", "return"}
          THEN pc' = "main"
          ELSE /\ pc' = "customer_menu"
               /\ ~C12_ChangesCart(last'.op, last'.ret) => items' = items]_vars

\* an empty cart was checked out and the program is back in the top-level menu
C12_Witness ==
    /\ pc = "main"
    /\ last.op = "checkout"
    /\ last.text = "Cart is empty!"

\* the steps C13 calls rejected
C13_RejectedStep(op, ret) ==
    \/ op \in {"invalid_choice", "find_product", "value_error"}
    \/ op \in {"add_to_cart", "remove_from_cart", "add_product"} /\ ret = "False"

\* C13: an invalid choice, a product or cart lookup miss, a rejected add_to_cart,
\* a rejected add_product and a malformed number each leave the program in the
\* menu it was in, with the catalog and the cart as they were; and the program
\* ends only by the exit choice of the top-level menu.
C13_RejectedStaysPut ==
    [][/\ C13_RejectedStep(last'.op, last'.ret) =>
              /\ pc' = pc
              /\ products' = products
              /\ items' = items
       /\ (pc' = "exit" /\ pc /= "exit") => pc = "main" /\ last'.op = "exit"]_vars

\* a malformed quantity was typed with items in the cart
C13_Witness ==
    /\ pc = "customer_menu"
    /\ last.op = "value_error"
    /\ items /= <<>>

\* C14: no step removes a product or changes a product's name or price, no
\* step raises a product's stock, and only a checkout changes one: add_to_cart
\* (successful or rejected), remove_from_cart, view_cart with its total_price,
\* find_product, list_products and add_product leave every existing product as
\* it was.
C14_OnlyCheckoutChangesStock ==
    [][\A i \in DOMAIN products :
          /\ i \in DOMAIN products'
          /\ products'[i].name = products[i].name
          /\ products'[i].price = products[i].price
          /\ products'[i].stock <= products[i].stock
          /\ last'.op /= "checkout" => products'[i] = products[i]]_vars

\* a product was added after units of another had been sold
C14_Witness ==
    /\ last.op = "add_product" /\ last.ret = "True"
    /\ \E i \in DOMAIN sold : sold[i] > 0

\* C15: in a customer session no step but the checkout changes the stock of a
\* product the cart holds; at the checkout every item's quantity is at most its
\* product's stock, and the checkout takes every item's quantity off, not only
\* some.
C15_StockStableUntilCheckout ==
    [][pc = "customer_menu" =>
          \A k \in DOMAIN items :
              LET p == items[k].product
              IN  IF last'.op = "checkout"
                  THEN /\ items[k].quantity <= products[p].stock
                       /\ products'[p].stock = products[p].stock - items[k].quantity
                  ELSE products'[p].stock = products[p].stock]_vars

\* a cart of two products was checked out and one of them is sold out
C15_Witness ==
    /\ pc = "main"
    /\ last.op = "checkout"
    /\ Cardinality({i \in DOMAIN sold : sold[i] > 0}) >= 2
    /\ \E i \in DOMAIN products : sold[i] > 0 /\ products[i].stock = 0

\* the names looked up: those of ApiNames and one no product has, "Pen"
C16_Names == ApiNames \cup {Pen}

\* find_product(name) is None when no product has that name, letter case
\* ignored, and else is a product that has it and that no product with it precedes
C16_FirstMatch(prods, name) ==
    LET f == find_product(prods, name)
    IN  IF \A i \in DOMAIN prods : lower(prods[i].name) /= lower(name)
        THEN f = 0
        ELSE /\ f \in DOMAIN prods
             /\ lower(prods[f].name) = lower(name)
             /\ \A j \in 1..(f - 1) : lower(prods[j].name) /= lower(name)

\* C16: whenever find_product is called, in any catalog state and for any name,
\* it returns the first product in insertion order whose name equals name
\* ignoring letter case, and None exactly when there is none; and it leaves the
\* catalog as it was.
C16_FindFirstMatch ==
    [][last'.op = "find_product" =>
          /\ \A name \in C16_Names : C16_FirstMatch(products, name)
          /\ products' = products]_vars

\* a product was found in a catalog of two names that differ only in letter case
C16_Witness ==
    /\ last.op = "find_product" /\ last.ret = "True"
    /\ Len(products) = 2
    /\ products[1].name /= products[2].name
    /\ lower(products[1].name) = lower(products[2].name)

\* the cart its without its item at position i
C17_Without(its, i) ==
    [k \in 1..(Len(its) - 1) |-> IF k < i THEN its[k] ELSE its[k + 1]]

\* C17: in every cart state remove_from_cart(name) fails and leaves the cart as
\* it was when no item's product name equals name ignoring letter case;
\* otherwise it removes the first such item and no other, the remaining items
\* keeping their quantities and their order.
C17_RemoveFirstMatch ==
    \A name \in C16_Names :
        LET r == remove_from_cart(items, products, name)
            M == {k \in DOMAIN items :
                     lower(products[items[k].product].name) = lower(name)}
        IN  IF M = {}
            THEN ~r.ret /\ r.items = items
            ELSE /\ r.ret
                 /\ \E i \in M : /\ \A j \in M : i <= j
                                 /\ r.items = C17_Without(items, i)

\* an item was removed, another stays, and the catalog has two names that
\* differ only in letter case
C17_Witness ==
    /\ last.op = "remove_from_cart" /\ last.ret = "True"
    /\ Len(items) = 1
    /\ Len(products) = 2
    /\ lower(products[1].name) = lower(products[2].name)

\* the sum of price * quantity over the items of a cart
C18_LineTotals(its, prods) ==
    Sum([k \in DOMAIN its |-> prods[its[k].product].price * its[k].quantity])

\* C18: in every cart state total_price() is the sum of price * quantity over
\* the items, 0 for an empty cart; and the total a checkout prints is that sum
\* over the items held right before the checkout.
C18_TotalIsSumOfLines ==
    [][/\ total_price(items, products) = C18_LineTotals(items, products)
       /\ items = <<>> => total_price(items, products) = 0
       /\ (last'.op = "checkout" /\ items /= <<>>) =>
              /\ last'.text = "Total amount due:"
              /\ last'.n = C18_LineTotals(items, products)]_vars

\* 2 Laptops were checked out of the seeded store: total $2400.00, Laptop stock 3
C18_Witness ==
    /\ last.op = "checkout"
    /\ last.n = 240000
    /\ products[1].name = Laptop /\ products[1].stock = 3
    /\ sold[1] = 2

\* C19: for every product, stock at creation minus current stock is the sum of
\* its quantities in the checkouts completed so far, over all sessions: nothing
\* is sold at the start or of a product just created, every step keeps stock
\* plus units sold, and a return or a removal takes nothing off any stock.
C19_StockConserved ==
    /\ \A i \in DOMAIN sold : sold[i] = 0
    /\ [][/\ \A i \in DOMAIN products :
                products'[i].stock + sold'[i] = products[i].stock + sold[i]
          /\ \A i \in DOMAIN products' \ DOMAIN products : sold'[i] = 0
          /\ DOMAIN sold' = DOMAIN products'
          /\ last'.op \in {"return", "remove_from_cart"} =>
                \A i \in DOMAIN products :
                    /\ products'[i].stock = products[i].stock
                    /\ sold'[i] = sold[i]]_vars

\* an item was taken out of a cart that still holds another, in a session after
\* a completed checkout
C19_Witness ==
    /\ last.op = "remove_from_cart" /\ last.ret = "True"
    /\ items /= <<>>
    /\ \E i \in DOMAIN sold : sold[i] > 0

\* an earlier product has the name of product i, letter case ignored
C20_Shadowed(prods, i) ==
    \E j \in 1..(i - 1) : lower(prods[j].name) = lower(prods[i].name)

\* every cart item references a product of the catalog that no earlier product
\* shares its name with, letter case ignored
C20_CartHoldsFirstMatches(its, prods) ==
    \A k \in DOMAIN its :
        /\ its[k].product \in DOMAIN prods
        /\ ~C20_Shadowed(prods, its[k].product)

\* C20: in every customer session each cart item references a product of the
\* catalog that is the first case-insensitive match for its own name; a product
\* added under the name of an earlier one, letter case ignored, is in no cart,
\* has had no unit sold and keeps its stock in every step.
C20_ShadowedNeverSold ==
    [][/\ C20_CartHoldsFirstMatches(items, products)
       /\ C20_CartHoldsFirstMatches(items', products')
       /\ \A i \in DOMAIN products :
             C20_Shadowed(products, i) =>
                 /\ sold[i] = 0
                 /\ products'[i].stock = products[i].stock]_vars

\* "laptop" is in the catalog after "Laptop" and a product was added to the cart
C20_Witness ==
    /\ pc = "customer_menu"
    /\ last.op = "add_to_cart" /\ last.ret = "True"
    /\ \E i \in DOMAIN products : C20_Shadowed(products, i)
    /\ \E k \in DOMAIN items : products[items[k].product].name = Laptop

====
